---- MODULE Spec2Model ----
(***************************************************************************)
(* A model of app.py: the text-extraction dispatch, the field parser, the  *)
(* reference lookup, the comparator and the per-file loop of index().      *)
(*                                                                         *)
(* Python values are represented as follows.                               *)
(*   str            a TLA+ string; characters are read with SubSeq(s,i,i)  *)
(*   None / a value the empty tuple <<>> / the one-element tuple <<v>>     *)
(*   dict           a function from its keys to its values                 *)
(*   float accuracy the exact fraction <<numerator, denominator>> in       *)
(*                  lowest terms (the float is the rounding of it)         *)
(***************************************************************************)
EXTENDS Integers, Sequences, FiniteSets, TLC

VARIABLES
    text,            \* argument of extract_structured_data (parser runs)
    data,            \* its return value, None before the call
    extracted_data,  \* first argument of compare_data (comparator runs)
    db_data,         \* second argument of compare_data
    comparison,      \* its return value, None before the call
    request,         \* per request: its method and its uploaded files
    pc,              \* per request: position inside index()
    idx,             \* per request: position of the for loop in the batch
    local,           \* per request: the loop body's local variables
    results,         \* per request: the results dict
    history,         \* per request: what each iteration produced (ghost)
    lookups,         \* arguments get_database_data was called with (ghost)
    fs               \* the working directory: temp path -> file content

vars == <<text, data, extracted_data, db_data, comparison,
          request, pc, idx, local, results, history, lookups, fs>>

parseVars == <<text, data>>
compareVars == <<extracted_data, db_data, comparison>>
indexVars == <<request, pc, idx, local, results, history, lookups, fs>>

-----------------------------------------------------------------------------
(* Bounds of the model *)

MaxLines == 3

MaxKeys == 3

MaxBatch == 2

-----------------------------------------------------------------------------
(* Python's None and optional values *)

None == <<>>

Some(v) == <<v>>

-----------------------------------------------------------------------------
(* str methods and the pieces of the re module the program uses *)

Whitespace == {" ", "\t", "\n", "\r"}

Char(s, i) == SubSeq(s, i, i)

Rest(s, i) == SubSeq(s, i, Len(s))

\* str.lower() on one character (the ASCII letters)
lower_char(c) ==
    CASE c = "A" -> "a" []
         c = "B" -> "b" []
         c = "C" -> "c" []
         c = "D" -> "d" []
         c = "E" -> "e" []
         c = "F" -> "f" []
         c = "G" -> "g" []
         c = "H" -> "h" []
         c = "I" -> "i" []
         c = "J" -> "j" []
         c = "K" -> "k" []
         c = "L" -> "l" []
         c = "M" -> "m" []
         c = "N" -> "n" []
         c = "O" -> "o" []
         c = "P" -> "p" []
         c = "Q" -> "q" []
         c = "R" -> "r" []
         c = "S" -> "s" []
         c = "T" -> "t" []
         c = "U" -> "u" []
         c = "V" -> "v" []
         c = "W" -> "w" []
         c = "X" -> "x" []
         c = "Y" -> "y" []
         c = "Z" -> "z" []
         OTHER -> c

RECURSIVE lower(_)
lower(s) == IF s = "" THEN "" ELSE lower_char(Char(s, 1)) \o lower(Rest(s, 2))

\* The index of the first character at or after `from` that is not
\* whitespace, Len(s) + 1 when there is none: what a greedy \s* consumes.
RECURSIVE skip_space(_, _)
skip_space(s, from) ==
    IF from > Len(s) \/ Char(s, from) \notin Whitespace
    THEN from
    ELSE skip_space(s, from + 1)

RECURSIVE last_non_space(_, _)
last_non_space(s, to) ==
    IF to < 1 \/ Char(s, to) \notin Whitespace
    THEN to
    ELSE last_non_space(s, to - 1)

strip(s) == SubSeq(s, skip_space(s, 1), last_non_space(s, Len(s)))

startswith(s, prefix) ==
    Len(s) >= Len(prefix) /\ SubSeq(s, 1, Len(prefix)) = prefix

\* s.split('\n')
RECURSIVE split_lines(_)
split_lines(s) ==
    IF \E p \in 1..Len(s) : Char(s, p) = "\n"
    THEN LET p == CHOOSE q \in 1..Len(s) :
                      Char(s, q) = "\n" /\ \A j \in 1..(q - 1) : Char(s, j) # "\n"
         IN  <<SubSeq(s, 1, p - 1)>> \o split_lines(Rest(s, p + 1))
    ELSE <<s>>

-----------------------------------------------------------------------------
(* extract_structured_data *)

field_names == <<"Sr no.", "Name", "City", "Age", "Country", "Address">>

FieldSet == {field_names[k] : k \in 1..Len(field_names)}

\* The pattern is "." except newline, so group 1 ends at the first newline.
RECURSIVE dot_star_end(_, _)
dot_star_end(s, from) ==
    IF from > Len(s) \/ Char(s, from) = "\n"
    THEN from - 1
    ELSE dot_star_end(s, from + 1)

\* A plausible slip: the pattern compiled without re.IGNORECASE.
pattern_match_case_sensitive(field, line) ==
    LET p0 == skip_space(line, 1)
        p1 == skip_space(line, p0 + Len(field))
        p2 == skip_space(line, p1 + 1)
    IN  IF /\ p0 + Len(field) - 1 <= Len(line)
           /\ SubSeq(line, p0, p0 + Len(field) - 1) = field
           /\ p1 <= Len(line)
           /\ Char(line, p1) = ":"
        THEN Some(SubSeq(line, p2, dot_star_end(line, p2)))
        ELSE None

\* The escaped field name matched literally, character by character, from
\* position `at` of the line, under re.IGNORECASE; k is the next character
\* of the field name.
RECURSIVE match_literal(_, _, _, _)
match_literal(field, line, at, k) ==
    IF k > Len(field)
    THEN TRUE
    ELSE IF at > Len(line) \/ lower_char(Char(line, at)) # lower_char(Char(field, k))
    THEN FALSE
    ELSE match_literal(field, line, at + 1, k + 1)

\* re.compile(r"^\s*" + re.escape(field) + r"\s*:\s*(.*)", re.IGNORECASE)
\* .match(line): None when there is no match, group(1) otherwise.
pattern_match(field, line) ==
    LET p0 == skip_space(line, 1)
        p1 == skip_space(line, p0 + Len(field))
        p2 == skip_space(line, p1 + 1)
    IN  IF /\ match_literal(field, line, p0, 1)
           /\ p1 <= Len(line)
           /\ Char(line, p1) = ":"
        THEN Some(SubSeq(line, p2, dot_star_end(line, p2)))
        ELSE None

\* The inner loop "for line in lines": the value of the first line that
\* matches, at which the loop breaks; None when the loop runs out.
RECURSIVE scan_lines(_, _, _)
scan_lines(field, lines, k) ==
    IF k > Len(lines)
    THEN None
    ELSE LET match == pattern_match(field, strip(lines[k]))
         IN  IF match # None
             THEN Some(strip(match[1]))
             ELSE scan_lines(field, lines, k + 1)

\* A plausible slip: the dict is not initialised with None, so a field that
\* no line matches has no key.
extract_structured_data_uninitialised(t) ==
    LET lines == split_lines(strip(t))
        found == {f \in FieldSet : scan_lines(f, lines, 1) # None}
    IN  [f \in found |-> scan_lines(f, lines, 1)]

extract_structured_data(t) ==
    LET lines == split_lines(strip(t))
    IN  [f \in FieldSet |-> scan_lines(f, lines, 1)]

-----------------------------------------------------------------------------
(* The texts the parser is run on *)

LinePool ==
    { "NAME \t: Bob ", "Name:", "Name", "Names: x", "My Name: y", "Name: a:b",
      "  sr NO.:S002", "Sr no.:", "Srxno.: S9", "City: Pune", "Country:\tIndia\r" }

RECURSIVE join_lines(_)
join_lines(ls) ==
    IF Len(ls) = 0 THEN ""
    ELSE IF Len(ls) = 1 THEN ls[1]
    ELSE ls[1] \o "\n" \o join_lines(Tail(ls))

Texts == UNION {{join_lines(ls) : ls \in [1..n -> LinePool]} : n \in 0..MaxLines}

-----------------------------------------------------------------------------
(* Parser runs: one call of extract_structured_data on a drawn text *)

IdleIndex ==
    /\ request = <<>>
    /\ pc = <<>>
    /\ idx = <<>>
    /\ local = <<>>
    /\ results = <<>>
    /\ history = <<>>
    /\ lookups = {}
    /\ fs = <<>>

IdleParse == text = "" /\ data = None

IdleCompare == extracted_data = <<>> /\ db_data = None /\ comparison = None

InitParse ==
    /\ text \in Texts
    /\ data = None
    /\ IdleCompare
    /\ IdleIndex

Parse ==
    /\ data = None
    /\ data' = Some(extract_structured_data(text))
    /\ UNCHANGED <<text, compareVars, indexVars>>

NextParse == Parse

SpecParse == InitParse /\ [][NextParse]_vars

-----------------------------------------------------------------------------
(* dummy_database, get_database_data and compare_data *)

dummy_database ==
    ( "S001" :> [ f \in FieldSet |->
                    CASE f = "Sr no." -> "S001" [] f = "Name" -> "Hemanshu Kasar"
                      [] f = "City" -> "Nagpur" [] f = "Age" -> "23"
                      [] f = "Country" -> "India" [] f = "Address" -> "7, gurudeo nagar" ] )
    @@
    ( "S002" :> [ f \in FieldSet |->
                    CASE f = "Sr no." -> "S002" [] f = "Name" -> "John Doe"
                      [] f = "City" -> "New York" [] f = "Age" -> "30"
                      [] f = "Country" -> "USA" [] f = "Address" -> "123 Main St" ] )
    @@
    ( "S003" :> [ f \in FieldSet |->
                    CASE f = "Sr no." -> "S003" [] f = "Name" -> "Sarah Johnson"
                      [] f = "City" -> "London" [] f = "Age" -> "27"
                      [] f = "Country" -> "UK" [] f = "Address" -> "45 Oxford Street" ] )
    @@
    ( "S004" :> [ f \in FieldSet |->
                    CASE f = "Sr no." -> "S004" [] f = "Name" -> "Raj Patel"
                      [] f = "City" -> "Mumbai" [] f = "Age" -> "32"
                      [] f = "Country" -> "India"
                      [] f = "Address" -> "201, Sea View Apartments" ] )
    @@
    ( "S005" :> [ f \in FieldSet |->
                    CASE f = "Sr no." -> "S005" [] f = "Name" -> "Maria Garcia"
                      [] f = "City" -> "Barcelona" [] f = "Age" -> "29"
                      [] f = "Country" -> "Spain"
                      [] f = "Address" -> "Carrer de Mallorca, 15" ] )
    @@
    ( "S006" :> [ f \in FieldSet |->
                    CASE f = "Sr no." -> "S006" [] f = "Name" -> "Akira Tanaka"
                      [] f = "City" -> "Tokyo" [] f = "Age" -> "35"
                      [] f = "Country" -> "Japan" [] f = "Address" -> "2-1-3 Shibuya" ] )
    @@
    ( "S007" :> [ f \in FieldSet |->
                    CASE f = "Sr no." -> "S007" [] f = "Name" -> "Chen Wei"
                      [] f = "City" -> "Shanghai" [] f = "Age" -> "26"
                      [] f = "Country" -> "China" [] f = "Address" -> "88 Nanjing Road" ] )
    @@
    ( "S008" :> [ f \in FieldSet |->
                    CASE f = "Sr no." -> "S008" [] f = "Name" -> "Lucas Silva"
                      [] f = "City" -> "São Paulo" [] f = "Age" -> "31"
                      [] f = "Country" -> "Brazil" [] f = "Address" -> "Rua Augusta, 1200" ] )
    @@
    ( "S009" :> [ f \in FieldSet |->
                    CASE f = "Sr no." -> "S009" [] f = "Name" -> "Olivia Miller"
                      [] f = "City" -> "Sydney" [] f = "Age" -> "28"
                      [] f = "Country" -> "Australia"
                      [] f = "Address" -> "42 Bondi Beach Road" ] )
    @@
    ( "S010" :> [ f \in FieldSet |->
                    CASE f = "Sr no." -> "S010" [] f = "Name" -> "Ahmed Hassan"
                      [] f = "City" -> "Cairo" [] f = "Age" -> "33"
                      [] f = "Country" -> "Egypt"
                      [] f = "Address" -> "17 Al Tahrir Square" ] )

\* dummy_database.get(sr_no, None)
get_database_data(sr_no) ==
    IF sr_no \in DOMAIN dummy_database THEN Some(dummy_database[sr_no]) ELSE None

\* dict.get(key) on a dict whose values are None or Some(str)
dict_get(d, key) == IF key \in DOMAIN d THEN d[key] ELSE None

RECURSIVE gcd(_, _)
gcd(a, b) == IF b = 0 THEN a ELSE gcd(b, a % b)

\* The float n / d, kept exact: 0 is <<0, 1>>, 100 is <<100, 1>>.
Fraction(n, d) == IF n = 0 THEN <<0, 1>> ELSE <<n \div gcd(n, d), d \div gcd(n, d)>>

NotFoundInDatabase == "Sr no. not found in database."

\* A plausible slip: a field the text does not hold is skipped instead of
\* being recorded as a mismatch.
RECURSIVE compare_loop_skip_absent(_, _, _, _)
compare_loop_skip_absent(extracted, db, keys, acc) ==
    IF keys = {}
    THEN acc
    ELSE LET key == CHOOSE k \in keys : TRUE
             db_value == db[key]
             extracted_value == dict_get(extracted, key)
         IN  compare_loop_skip_absent(extracted, db, keys \ {key},
                 IF extracted_value = Some(db_value)
                 THEN [acc EXCEPT !.matched_fields = @ + 1]
                 ELSE IF extracted_value = None
                 THEN acc
                 ELSE [acc EXCEPT !.mismatched_fields =
                          (key :> [db_value |-> db_value,
                                   extracted_value |-> extracted_value]) @@ @])

\* The loop "for key, db_value in db_data.items()" over the keys not yet
\* visited; acc holds matched_fields and mismatched_fields.  The order of
\* the visits does not show in the result.
RECURSIVE compare_loop(_, _, _, _)
compare_loop(extracted, db, keys, acc) ==
    IF keys = {}
    THEN acc
    ELSE LET key == CHOOSE k \in keys : TRUE
             db_value == db[key]
             extracted_value == dict_get(extracted, key)
         IN  compare_loop(extracted, db, keys \ {key},
                 IF extracted_value = Some(db_value)
                 THEN [acc EXCEPT !.matched_fields = @ + 1]
                 ELSE [acc EXCEPT !.mismatched_fields =
                          (key :> [db_value |-> db_value,
                                   extracted_value |-> extracted_value]) @@ @])

\* "not db_data": None and the empty dict are both falsy.
compare_data(extracted, db) ==
    IF db = None \/ DOMAIN db[1] = {}
    THEN [accuracy |-> <<0, 1>>, mismatched_fields |-> <<>>,
          error |-> Some(NotFoundInDatabase)]
    ELSE LET total_fields == Cardinality(DOMAIN db[1])
             done == compare_loop(extracted, db[1], DOMAIN db[1],
                         [matched_fields |-> 0, mismatched_fields |-> <<>>])
         IN  [accuracy |-> IF total_fields > 0
                           THEN Fraction(done.matched_fields * 100, total_fields)
                           ELSE <<0, 1>>,
              mismatched_fields |-> done.mismatched_fields,
              error |-> None]

-----------------------------------------------------------------------------
(* Comparator runs: one call of compare_data on drawn arguments *)

CompareKeys == {field_names[k] : k \in 1..MaxKeys}

ReferenceValues == {"S001", "Pune"}

ParsedValues == {None, Some(""), Some("S001"), Some("Pune")}

ReferenceRecords == UNION {[K -> ReferenceValues] : K \in SUBSET CompareKeys}

ParsedRecords == UNION {[K -> ParsedValues] : K \in SUBSET CompareKeys}

InitCompare ==
    /\ extracted_data \in ParsedRecords
    /\ db_data \in {None} \cup {Some(d) : d \in ReferenceRecords}
    /\ comparison = None
    /\ IdleParse
    /\ IdleIndex

Compare ==
    /\ comparison = None
    /\ comparison' = Some(compare_data(extracted_data, db_data))
    /\ UNCHANGED <<extracted_data, db_data, parseVars, indexVars>>

NextCompare == Compare

SpecCompare == InitCompare /\ [][NextCompare]_vars

\* C1: compare_data returns the not-found outcome exactly when the reference
\* record is absent; for every reference record that is present, one with no
\* keys included, the error is None (and the accuracy 0 when it has no keys).
C1_NotFoundIffAbsent ==
    comparison # None =>
        /\ comparison[1] = [accuracy |-> <<0, 1>>, mismatched_fields |-> <<>>,
                            error |-> Some(NotFoundInDatabase)]
              <=> db_data = None
        /\ db_data # None =>
              /\ comparison[1].error = None
              /\ DOMAIN db_data[1] = {} => comparison[1].accuracy = <<0, 1>>

\* C5: for a present reference record the mismatch set holds exactly the
\* reference keys whose parsed value differs from the reference value (an
\* absent parsed value differs), each with the expected and the actual
\* value; keys of the parsed record alone do not count; the accuracy is
\* (reference keys outside the mismatch set / reference keys) x 100.
C5_MismatchesAndAccuracy ==
    (comparison # None /\ db_data # None) =>
        LET ref == db_data[1]
            mis == comparison[1].mismatched_fields
            differing == {k \in DOMAIN ref :
                             \/ k \notin DOMAIN extracted_data
                             \/ extracted_data[k] # Some(ref[k])}
        IN  /\ DOMAIN mis = differing
            /\ \A k \in DOMAIN mis :
                  /\ mis[k].db_value = ref[k]
                  /\ mis[k].extracted_value =
                        IF k \in DOMAIN extracted_data THEN extracted_data[k] ELSE None
            /\ DOMAIN ref # {} =>
                  LET n == Cardinality(DOMAIN ref)
                      matched == n - Cardinality(DOMAIN mis)
                  IN  /\ matched >= 0
                      /\ comparison[1].accuracy[1] * n
                             = matched * 100 * comparison[1].accuracy[2]

\* A comparison with a matched key, a key whose parsed value is None and
\* is recorded as a mismatch, and a key only the parsed record has.
C5_Witness ==
    /\ comparison # None
    /\ db_data # None
    /\ \E k \in DOMAIN db_data[1] :
          k \in DOMAIN extracted_data /\ extracted_data[k] = Some(db_data[1][k])
    /\ \E k \in DOMAIN comparison[1].mismatched_fields :
          comparison[1].mismatched_fields[k].extracted_value = None
    /\ DOMAIN extracted_data \ DOMAIN db_data[1] # {}
    /\ comparison[1].accuracy \notin {<<0, 1>>, <<100, 1>>}

-----------------------------------------------------------------------------
(* extract_text_from_file and its three backends *)

\* An uploaded document: whether its bytes are a well-formed document of
\* its type, and the text it holds.  A backend reads the file at the temp
\* path: None when there is no such file, Some(document) otherwise.

ImageTypes == {"png", "jpg", "jpeg", "bmp", "gif", "tiff"}

\* What the OCR service can answer to one request.
OcrResponses == {"connection_error", "http_error", "errored", "no_results",
                 "null_text", "parsed"}

ocr_image_via_api(file, response) ==
    IF file = None
    THEN "Error during OCR processing: [Errno 2] No such file or directory"
    ELSE CASE response \in {"connection_error", "http_error"} ->
                  "Error connecting to OCR Space API: " \o response
           [] response = "errored" ->
                  "OCR Space API Error: " \o "Unable to recognize the file type"
           [] response = "no_results" -> strip("No text found in image.")
           [] response = "null_text" ->
                  "Error during OCR processing: 'NoneType' object has no attribute 'strip'"
           [] response = "parsed" -> strip(file[1].text)

extract_text_from_pdf(file) ==
    IF file = None \/ ~file[1].well_formed
    THEN "Error extracting text from PDF: " \o "No /Root object! - Is this really a PDF?"
    ELSE strip(file[1].text)

extract_text_from_docx(file) ==
    IF file = None \/ ~file[1].well_formed
    THEN "Error extracting text from DOCX: " \o "File is not a zip file"
    ELSE strip(file[1].text)

\* filename.rsplit('.', 1)[1].lower() if '.' in filename else ''
extension_of(filename) ==
    LET dots == {k \in 1..Len(filename) : Char(filename, k) = "."}
    IN  IF dots = {}
        THEN ""
        ELSE lower(Rest(filename, 1 + CHOOSE k \in dots : \A j \in dots : j <= k))

extract_text_from_file(file, filename, response) ==
    LET file_extension == extension_of(filename)
    IN  IF file_extension \in ImageTypes THEN ocr_image_via_api(file, response)
        ELSE IF file_extension = "pdf" THEN extract_text_from_pdf(file)
        ELSE IF file_extension = "docx" THEN extract_text_from_docx(file)
        ELSE "Unsupported file format."

-----------------------------------------------------------------------------
(* index(): lines 251-272, from the extracted text to the result entry *)

MissingSrNo == "Sr no. not found in extracted data, cannot compare."

StructuredTypes == {"docx", "pdf", "png", "jpg", "jpeg", "bmp", "gif", "tiff"}

\* "if sr_no_value": None and the empty string are both falsy.
truthy(value) == value # None /\ value[1] # ""

\* The entry stored in results[filename], with the call made to
\* get_database_data (None when it is not called) and whether compare_data
\* was called.
result_entry(file_extension, extracted_text) ==
    LET initial == [extracted_text |-> extracted_text, structured_data |-> <<>>,
                    accuracy |-> None, mismatched_fields |-> <<>>,
                    comparison_error |-> None]
    IN  IF /\ extracted_text # ""
           /\ ~startswith(extracted_text, "Error")
           /\ file_extension \in StructuredTypes
        THEN LET structured_data == extract_structured_data(extracted_text)
                 sr_no_value == dict_get(structured_data, "Sr no.")
             IN  IF truthy(sr_no_value)
                 THEN LET found == get_database_data(sr_no_value[1])
                          compared == compare_data(structured_data, found)
                      IN  [entry |-> [initial EXCEPT
                                         !.structured_data = structured_data,
                                         !.accuracy = compared.accuracy,
                                         !.mismatched_fields = compared.mismatched_fields,
                                         !.comparison_error = compared.error],
                           parsed |-> TRUE, lookup |-> Some(sr_no_value),
                           compared |-> TRUE]
                 ELSE [entry |-> [initial EXCEPT
                                     !.structured_data = structured_data,
                                     !.comparison_error = Some(MissingSrNo)],
                       parsed |-> TRUE, lookup |-> None, compared |-> FALSE]
        ELSE [entry |-> initial, parsed |-> FALSE, lookup |-> None,
              compared |-> FALSE]

-----------------------------------------------------------------------------
(* index(): the request handler, one action per step of the loop body *)

Requests == DOMAIN pc

remove_key(d, key) == [k \in DOMAIN d \ {key} |-> d[k]]

\* Entry of index(): a GET, or a POST without the 'image' part, returns at
\* once; otherwise the loop over the files starts.
Begin(r) ==
    /\ pc[r] = "start"
    /\ pc' = [pc EXCEPT ![r] =
                 IF request[r].method = "POST" /\ request[r].files = None
                 THEN "no_file_part"
                 ELSE IF request[r].method = "POST" THEN "loop" ELSE "render"]
    /\ UNCHANGED <<request, idx, local, results, history, lookups, fs,
                   parseVars, compareVars>>

\* Head of the loop: the next file, if any.  An empty filename is recorded
\* and skipped; otherwise the temp path is built from the extension.
NextFile(r) ==
    /\ pc[r] = "loop"
    /\ idx[r] <= Len(request[r].files[1])
    /\ LET image_file == request[r].files[1][idx[r]]
           filename == image_file.filename
       IN  IF filename = ""
           THEN /\ results' = [results EXCEPT ![r] =
                                  (filename :> [error |-> "No selected file"]) @@ @]
                /\ history' = [history EXCEPT ![r] =
                                  Append(@, [filename |-> filename,
                                             file_extension |-> "",
                                             response |-> "none",
                                             entry |-> [error |-> "No selected file"],
                                             parsed |-> FALSE,
                                             lookup |-> None,
                                             compared |-> FALSE])]
                /\ idx' = [idx EXCEPT ![r] = @ + 1]
                /\ UNCHANGED <<pc, local>>
           ELSE /\ local' = [local EXCEPT ![r] =
                                [filename |-> filename,
                                 file_extension |-> extension_of(filename),
                                 temp_file_path |-> "temp_file." \o extension_of(filename),
                                 response |-> "none",
                                 extracted_text |-> ""]]
                /\ pc' = [pc EXCEPT ![r] = "save"]
                /\ UNCHANGED <<results, history, idx>>
    /\ UNCHANGED <<request, lookups, fs, parseVars, compareVars>>

\* image_file.save(temp_file_path)
Save(r) ==
    /\ pc[r] = "save"
    /\ fs' = (local[r].temp_file_path :> request[r].files[1][idx[r]].document) @@ fs
    /\ pc' = [pc EXCEPT ![r] = "extract"]
    /\ UNCHANGED <<request, idx, local, results, history, lookups,
                   parseVars, compareVars>>

\* extracted_text = extract_text_from_file(temp_file_path, filename); the
\* OCR service's answer is the environment's choice.
Extract(r) ==
    /\ pc[r] = "extract"
    /\ \E response \in IF local[r].file_extension \in ImageTypes
                        THEN OcrResponses ELSE {"none"} :
             local' = [local EXCEPT
                ![r].response = response,
                ![r].extracted_text =
                    extract_text_from_file(dict_get([p \in DOMAIN fs |-> Some(fs[p])],
                                                    local[r].temp_file_path),
                                           local[r].filename, response)]
    /\ pc' = [pc EXCEPT ![r] = "process"]
    /\ UNCHANGED <<request, idx, results, history, lookups, fs,
                   parseVars, compareVars>>

\* Lines 251-272: parse, look up, compare, store the entry.
Process(r) ==
    /\ pc[r] = "process"
    /\ LET out == result_entry(local[r].file_extension, local[r].extracted_text)
       IN  /\ results' = [results EXCEPT ![r] = (local[r].filename :> out.entry) @@ @]
           /\ history' = [history EXCEPT ![r] =
                             Append(@, [filename |-> local[r].filename,
                                        file_extension |-> local[r].file_extension,
                                        response |-> local[r].response,
                                        entry |-> out.entry,
                                        parsed |-> out.parsed,
                                        lookup |-> out.lookup,
                                        compared |-> out.compared])]
           /\ lookups' = IF out.lookup = None THEN lookups
                         ELSE lookups \cup {out.lookup[1]}
    /\ pc' = [pc EXCEPT ![r] = "remove"]
    /\ UNCHANGED <<request, idx, local, fs, parseVars, compareVars>>

\* A plausible slip: os.remove placed inside the branch taken when the text
\* extraction succeeded, so a failed extraction leaves its temp file behind.
RemoveAfterSuccessOnly(r) ==
    /\ pc[r] = "remove"
    /\ IF local[r].extracted_text # "" /\ ~startswith(local[r].extracted_text, "Error")
       THEN fs' = remove_key(fs, local[r].temp_file_path)
       ELSE fs' = fs
    /\ pc' = [pc EXCEPT ![r] = "loop"]
    /\ idx' = [idx EXCEPT ![r] = @ + 1]
    /\ UNCHANGED <<request, local, results, history, lookups, parseVars, compareVars>>

\* os.remove(temp_file_path): raises FileNotFoundError when the file is gone.
Remove(r) ==
    /\ pc[r] = "remove"
    /\ IF local[r].temp_file_path \in DOMAIN fs
       THEN /\ fs' = remove_key(fs, local[r].temp_file_path)
            /\ pc' = [pc EXCEPT ![r] = "loop"]
            /\ idx' = [idx EXCEPT ![r] = @ + 1]
       ELSE /\ fs' = fs
            /\ pc' = [pc EXCEPT ![r] = "raised"]
            /\ idx' = idx
    /\ UNCHANGED <<request, local, results, history, lookups, parseVars, compareVars>>

\* return render_template('index.html', results=results)
Render(r) ==
    /\ \/ pc[r] = "render"
       \/ pc[r] = "loop" /\ idx[r] > Len(request[r].files[1])
    /\ pc' = [pc EXCEPT ![r] = "done"]
    /\ UNCHANGED <<request, idx, local, results, history, lookups, fs,
                   parseVars, compareVars>>

-----------------------------------------------------------------------------
(* The uploads the handler is run on *)

ScenarioText ==
    "Sr no.: S001\nName: Hemanshu Kasar\nCity: Pune\nAge: 23\nCountry: India\nAddress: 7, gurudeo nagar"

ExactText ==
    "Sr no.: S002\nName: John Doe\nCity: New York\nAge: 30\nCountry: USA\nAddress: 123 Main St\n"

UploadPool ==
    { [filename |-> "a.docx", document |-> [well_formed |-> TRUE, text |-> ScenarioText]],
      [filename |-> "a.docx",
       document |-> [well_formed |-> TRUE, text |-> "Sr no.: S999\nName: X"]],
      [filename |-> "B.PDF", document |-> [well_formed |-> TRUE, text |-> ExactText]],
      [filename |-> "c.pdf", document |-> [well_formed |-> TRUE, text |-> "Name: Alice"]],
      [filename |-> "d.v2.docx",
       document |-> [well_formed |-> TRUE, text |-> "Sr no.:\nName: Bob"]],
      [filename |-> "e.pdf", document |-> [well_formed |-> FALSE, text |-> ""]],
      [filename |-> "f.png",
       document |-> [well_formed |-> TRUE, text |-> " Sr no. : S001\nCity: Nagpur "]],
      [filename |-> "g.txt", document |-> [well_formed |-> TRUE, text |-> "Sr no.: S002"]],
      [filename |-> "", document |-> [well_formed |-> FALSE, text |-> ""]] }

Batches(n) == UNION {[1..m -> UploadPool] : m \in 0..n}

HttpRequests ==
    {[method |-> "GET", files |-> None], [method |-> "POST", files |-> None]}
        \cup {[method |-> "POST", files |-> Some(b)] : b \in Batches(MaxBatch)}

InitIndex(R) ==
    /\ pc = [r \in R |-> "start"]
    /\ idx = [r \in R |-> 1]
    /\ local = [r \in R |-> <<>>]
    /\ results = [r \in R |-> <<>>]
    /\ history = [r \in R |-> <<>>]
    /\ lookups = {}
    /\ fs = <<>>
    /\ IdleParse
    /\ IdleCompare

\* One request at a time
Init ==
    /\ request \in [{1} -> HttpRequests]
    /\ InitIndex({1})

Next ==
    \/ \E r \in Requests : Begin(r)
    \/ \E r \in Requests : NextFile(r)
    \/ \E r \in Requests : Save(r)
    \/ \E r \in Requests : Extract(r)
    \/ \E r \in Requests : Process(r)
    \/ \E r \in Requests : Remove(r)
    \/ \E r \in Requests : Render(r)

Spec == Init /\ [][Next]_vars

\* Two requests served by two threads, one uploaded file each
InitConcurrent ==
    /\ request \in [{1, 2} -> {[method |-> "POST", files |-> Some(b)] :
                                  b \in [1..1 -> UploadPool]}]
    /\ InitIndex({1, 2})

SpecConcurrent == InitConcurrent /\ [][Next]_vars

-----------------------------------------------------------------------------
(* What index() is required to do, stated on the record of its iterations *)

\* <<r, k>>: request r has finished the body of the loop for its k-th file
Iterations == UNION {{<<r, k>> : k \in 1..Len(history[r])} : r \in Requests}

Uploaded(it) == request[it[1]].files[1][it[2]]

Done(it) == history[it[1]][it[2]]

SupportedTypes == ImageTypes \cup {"pdf", "docx"}

\* The backend the file was sent to failed: the OCR call did not come back
\* with parsed text, or the PDF or DOCX is malformed.
BackendFailed(it) ==
    \/ Done(it).file_extension \in ImageTypes /\ Done(it).response # "parsed"
    \/ Done(it).file_extension \in {"pdf", "docx"} /\ ~Uploaded(it).document.well_formed

Unsupported(it) ==
    Done(it).filename # "" /\ Done(it).file_extension \notin SupportedTypes

\* C2: the error "Sr no. not found in extracted data, cannot compare." is
\* recorded exactly when the parsed Sr no. is None; whenever it is not None,
\* the empty string included, the lookup and the comparator are called; the
\* lookup is never called with None.
C2_MissingIffAbsent ==
    /\ None \notin lookups
    /\ \A it \in Iterations :
          Done(it).parsed =>
              LET sr_no == Done(it).entry.structured_data["Sr no."]
              IN  /\ Done(it).entry.comparison_error = Some(MissingSrNo)
                        <=> sr_no = None
                  /\ sr_no # None =>
                        Done(it).lookup = Some(sr_no) /\ Done(it).compared

\* C3: every failure of a backend comes back from extract_text_from_file as
\* a string that begins with "Error".
C3_FailureBeginsWithError ==
    \A it \in Iterations :
        BackendFailed(it) => startswith(Done(it).entry.extracted_text, "Error")

\* C4: when the extraction failed or the extension is not supported, the
\* file's entry has no structured data, no accuracy, no mismatches and no
\* comparison error.
C4_FailureSkipsComparison ==
    \A it \in Iterations :
        (BackendFailed(it) \/ Unsupported(it)) =>
            /\ ~Done(it).parsed
            /\ Done(it).entry.structured_data = <<>>
            /\ Done(it).entry.accuracy = None
            /\ Done(it).entry.mismatched_fields = <<>>
            /\ Done(it).entry.comparison_error = None

\* C8: no request ends in an exception, and when a request has returned,
\* every file of its batch has its own entry in results: the one its own
\* iteration produced.
C8_EveryFileHasItsEntry ==
    \A r \in Requests :
        /\ pc[r] # "raised"
        /\ (pc[r] = "done" /\ request[r].files # None) =>
              /\ Len(history[r]) = Len(request[r].files[1])
              /\ \A k \in 1..Len(history[r]) :
                    /\ history[r][k].filename \in DOMAIN results[r]
                    /\ results[r][history[r][k].filename] = history[r][k].entry

\* What a file's entry is when nothing else touches its temp file.
AloneEntry(it) ==
    result_entry(Done(it).file_extension,
                 extract_text_from_file(Some(Uploaded(it).document),
                                        Done(it).filename, Done(it).response)).entry

\* C9: with two requests running together, no removal fails and every
\* file's entry is the one it gets when processed alone (the OCR service
\* giving the same answer).
C9_NoInterference ==
    /\ \A r \in Requests : pc[r] # "raised"
    /\ \A it \in Iterations :
          Done(it).filename # "" => Done(it).entry = AloneEntry(it)

\* C10: between two files and after the request has returned, no temp file
\* is left, whatever the outcome of the files processed so far.
C10_TempFileRemoved ==
    \A r \in Requests : pc[r] \in {"loop", "done"} => DOMAIN fs = {}

\* A request that has returned after a file whose extraction failed with an
\* error string and a file that went through a comparison or has no Sr no.
C10_Witness ==
    /\ pc[1] = "done"
    /\ DOMAIN fs = {}
    /\ \E j, k \in 1..Len(history[1]) :
          /\ Done(<<1, j>>).filename # ""
          /\ startswith(Done(<<1, j>>).entry.extracted_text, "Error")
          /\ Done(<<1, k>>).parsed
          /\ Done(<<1, k>>).entry.comparison_error # None

-----------------------------------------------------------------------------
(* What the parser is required to return, stated on the lines of the text *)

LowerLabel == [f \in FieldSet |-> lower(f)]

\* The trimmed line starts with the label, in any case, then optional
\* whitespace, then a colon.
LabelLine(f, line) ==
    LET s == strip(line)
    IN  /\ Len(s) > Len(f)
        /\ lower(SubSeq(s, 1, Len(f))) = LowerLabel[f]
        /\ \E n \in (Len(f) + 1)..Len(s) :
              /\ Char(s, n) = ":"
              /\ \A j \in (Len(f) + 1)..(n - 1) : Char(s, j) \in Whitespace

MatchingLines(lines, f) == {k \in 1..Len(lines) : LabelLine(f, lines[k])}

Lowest(S) == CHOOSE k \in S : \A j \in S : k <= j

AfterFirstColon(line) ==
    LET p == Lowest({q \in 1..Len(line) : Char(line, q) = ":"})
    IN  strip(Rest(line, p + 1))

\* C6: every field that some line matches gets the value of its first
\* matching line, top to bottom: the text after that line's first colon,
\* trimmed; labels match in any case; later matching lines do not count,
\* and a field's first matching line may lie above or below another's.
C6_FirstMatchWins ==
    data # None =>
        LET lines == split_lines(text)
        IN  \A f \in FieldSet :
                LET M == MatchingLines(lines, f)
                IN  M # {} =>
                        /\ f \in DOMAIN data[1]
                        /\ data[1][f] = Some(AfterFirstColon(lines[Lowest(M)]))

\* A field with two matching lines of different values, the first of them
\* spelled in another case than the canonical label, below the matching
\* line of a field that comes later in field_names.
C6_Witness ==
    /\ data # None
    /\ LET lines == split_lines(text)
       IN  \E m, n \in 1..Len(field_names) :
              LET Mm == MatchingLines(lines, field_names[m])
                  Mn == MatchingLines(lines, field_names[n])
              IN  /\ m < n
                  /\ Cardinality(Mm) >= 2
                  /\ Mn # {}
                  /\ Lowest(Mn) < Lowest(Mm)
                  /\ \E k \in Mm : AfterFirstColon(lines[k])
                                       # AfterFirstColon(lines[Lowest(Mm)])
                  /\ ~startswith(strip(lines[Lowest(Mm)]), field_names[m])
                  /\ data[1][field_names[m]]
                         = Some(AfterFirstColon(lines[Lowest(Mm)]))

\* C7: the record has exactly the six keys; a field is None exactly when no
\* line matches it; a matching line with nothing after the colon gives the
\* empty string; a line that holds the label without a colon does not match.
C7_SixKeys ==
    data # None =>
        /\ DOMAIN data[1] = FieldSet
        /\ Cardinality(DOMAIN data[1]) = 6
        /\ LET lines == split_lines(text)
           IN  \A f \in FieldSet :
                   LET M == MatchingLines(lines, f)
                   IN  /\ data[1][f] = None <=> M = {}
                       /\ (M # {} /\ AfterFirstColon(lines[Lowest(M)]) = "")
                              => data[1][f] = Some("")

\* A parsed text with an empty-valued field, and an absent field whose label
\* stands on a line without a colon.
C7_Witness ==
    /\ data # None
    /\ LET lines == split_lines(text)
       IN  \E f, g \in FieldSet :
              /\ data[1][f] = Some("")
              /\ data[1][g] = None
              /\ \E k \in 1..Len(lines) : lower(strip(lines[k])) = lower(g)

====
